---------------------------- MODULE Spec2Model ----------------------------
(***************************************************************************)
(* Model of the notebook Urbsim_Prac_2 (constrained spatial interaction    *)
(* models).  The notebook is a linear script: its code cells run top to    *)
(* bottom over one in-memory table, cdatasub.  Each state-changing code    *)
(* cell is one action; pc names the next cell to run.                      *)
(*                                                                         *)
(* Numbers.  The notebook computes in floating point.  The model computes  *)
(* the same expressions in exact arithmetic: a float is a rational         *)
(* <<n, d>> in lowest terms, and a value of a logarithm column is kept as  *)
(* [ln |-> q], the natural logarithm of the rational q, so that            *)
(* np.exp(a + g*b - c) with integer g is again a rational.  The fitted     *)
(* exponents are therefore drawn from integers only.                       *)
(***************************************************************************)
EXTENDS Integers, Sequences, FiniteSets, TLC

\* ------------------------------------------------------------ bounds
\* The distance between two zones is in 1..MaxDist.
MaxDist == 3
\* The fitted coefficient of log_Dist is in -MaxBeta..MaxBeta.
MaxBeta == 1
\* The observed flows are 10*base + step on the served pairs, 10*base elsewhere.
MaxBase == 1
MaxStep == 2
\* The series the metric functions are run on have 2 or 3 values, each in
\* 0..MaxValue; the estimates are rescaled by 1..MaxScale and shifted by one
\* of Shifts.
SeriesLengths == {2, 3}
MaxValue == 2
MaxScale == 2
Shifts == {-1, 0, 1}

\* The fitted coefficient of the log of salary or population.  The square
\* of a salary of 50000 no longer fits TLC's 32-bit integers, so the
\* exponents stop at 1 in absolute value.
GammaValues == {-1, 0, 1}

\* ------------------------------------------------- exact arithmetic
Abs(x) == IF x < 0 THEN -x ELSE x

RECURSIVE GCD(_, _)
GCD(a, b) == IF b = 0 THEN a ELSE GCD(b, a % b)

\* The rational n/d in lowest terms with a positive denominator.
Rat(n, d) ==
    LET g == GCD(Abs(n), Abs(d))
        s == IF d < 0 THEN -1 ELSE 1
    IN  <<(s * n) \div g, (s * d) \div g>>

FromInt(n) == <<n, 1>>

RatAdd(p, q) ==
    LET g == GCD(p[2], q[2])
        l == (p[2] \div g) * q[2]
    IN  Rat(p[1] * (l \div p[2]) + q[1] * (l \div q[2]), l)

RatMul(p, q) ==
    LET g1 == GCD(Abs(p[1]), q[2])
        g2 == GCD(Abs(q[1]), p[2])
    IN  IF p[1] = 0 \/ q[1] = 0 THEN <<0, 1>>
        ELSE <<(p[1] \div g1) * (q[1] \div g2), (p[2] \div g2) * (q[2] \div g1)>>

\* 1/q, for q # 0.
RatInv(q) == IF q[1] < 0 THEN <<-q[2], -q[1]>> ELSE <<q[2], q[1]>>

RECURSIVE IntPow(_, _)
IntPow(b, e) == IF e = 0 THEN 1 ELSE b * IntPow(b, e - 1)

\* q ** e for an integer exponent e of either sign (the ** of a Series).
RatPow(q, e) ==
    IF e >= 0 THEN <<IntPow(q[1], e), IntPow(q[2], e)>>
    ELSE RatInv(<<IntPow(q[1], -e), IntPow(q[2], -e)>>)

\* round(series, 0) is numpy's rounding: to the nearest integer, and a value
\* half way between two integers goes to the even one.  The result is still
\* a float column.
RoundHalfEven(q) ==
    LET f == q[1] \div q[2]
        r == q[1] % q[2]
    IN  IF 2 * r < q[2] THEN <<f, 1>>
        ELSE IF 2 * r > q[2] THEN <<f + 1, 1>>
        ELSE IF f % 2 = 0 THEN <<f, 1>> ELSE <<f + 1, 1>>

\* np.log of a positive number, np.exp of a logarithm, and the linear
\* combinations the notebook forms of logarithms.
Log(q) == [ln |-> q]
Exp(x) == x.ln
LogAdd(x, y) == [ln |-> RatMul(x.ln, y.ln)]
LogScale(k, x) == [ln |-> RatPow(x.ln, k)]

\* The sum of f[lo..hi], f a sequence of rationals (by halves, which keeps
\* the evaluation shallow).
RECURSIVE RatSumRange(_, _, _)
RatSumRange(f, lo, hi) ==
    IF lo > hi THEN <<0, 1>>
    ELSE IF lo = hi THEN f[lo]
    ELSE RatAdd(RatSumRange(f, lo, (lo + hi) \div 2),
                RatSumRange(f, ((lo + hi) \div 2) + 1, hi))

RatSum(f) == RatSumRange(f, 1, Len(f))

\* ------------------------------------------------------ the input table
\* The seven boroughs of the sample system, in the order of their codes.
ZoneCodes ==
    <<"E09000001", "E09000002", "E09000003", "E09000004",
      "E09000005", "E09000006", "E09000007">>

ZoneNames ==
    <<"City of London", "Barking and Dagenham", "Barnet", "Bexley",
      "Brent", "Bromley", "Camden">>

NZones == Len(ZoneCodes)
Zones == 1..NZones

\* The zone whose salary the scenario changes, and the scenario salary.
ScenarioCode == "E09000002"
ScenarioSalary == 25000
ScenarioZone == CHOOSE z \in Zones : ZoneCodes[z] = ScenarioCode

\* The salaries of the file: 50000 in the odd zones and 25000 in the even
\* ones, the scenario zone below or above the scenario salary.
ScenarioZoneSalaries == {12500, 50000}
Salary(j, sal) ==
    IF j = ScenarioZone THEN sal ELSE IF j % 2 = 1 THEN 50000 ELSE 25000

\* The populations of the file.
Population(i) == IF i % 2 = 0 THEN 16000 ELSE 8000

\* The distances of the file: symmetric, in 1..MaxDist; the scenario zone
\* lies at the same distance from every other zone.
Distance(i, j) ==
    IF i = ScenarioZone \/ j = ScenarioZone THEN MaxDist
    ELSE 1 + ((i + j) % MaxDist)

\* The observed flows of the file: every pair carries base tens of
\* commuters, and origin i sends step more to each of the next 1 + i % 3
\* zones (cyclically).
Served(i, j) == ((j - i) % NZones) \in 1..(1 + (i % 3))
Flow(i, j, base, step) == 10 * base + (IF Served(i, j) THEN step ELSE 0)

\* One row of the file.  TotalNoIntra is Total with the flows inside a zone
\* set to 0; the log columns are the logarithms of the raw columns.
FileRow(i, j, sal, base, step) ==
    [Orig |-> ZoneNames[i],
     Dest |-> ZoneNames[j],
     OrigCodeNew |-> ZoneCodes[i],
     DestCodeNew |-> ZoneCodes[j],
     Total |-> Flow(i, j, base, step),
     TotalNoIntra |-> IF i = j THEN 0 ELSE Flow(i, j, base, step),
     unconstrainedEst2 |-> FromInt(base + 1),
     Dj2_destsal |-> Salary(j, sal),
     Dist |-> Distance(i, j),
     log_Dj2_destsal |-> Log(FromInt(Salary(j, sal))),
     log_Oi1_origpop |-> Log(FromInt(Population(i))),
     log_Dist |-> Log(FromInt(Distance(i, j)))]

\* The file holds one row per ordered pair of different zones, origin by
\* origin.
PairOf(k) ==
    LET i == ((k - 1) \div (NZones - 1)) + 1
        c == ((k - 1) % (NZones - 1)) + 1
    IN  <<i, IF c < i THEN c ELSE c + 1>>

ReadCsv(sal, base, step) ==
    [k \in 1..(NZones * (NZones - 1)) |->
        FileRow(PairOf(k)[1], PairOf(k)[2], sal, base, step)]


\* ------------------------------------------------- dataframe operations
\* The columns of a table.
Columns(df) == IF Len(df) = 0 THEN {} ELSE DOMAIN df[1]

\* The columns pandas holds as integers; every other numeric column is a
\* float column.
IntColumns ==
    {"Total", "TotalNoIntra", "Dj2_destsal", "Dist", "O_i", "D_j",
     "Dj3_destsalScenario"}

\* The value of column c in row r, as a float.
Num(r, c) == IF c \in IntColumns THEN FromInt(r[c]) ELSE r[c]

\* df[c] = series: the column is appended, or overwritten when it exists.
\* The series is aligned with the rows by position.
Assign(df, c, series) ==
    [k \in DOMAIN df |->
        [x \in DOMAIN df[k] \cup {c} |-> IF x = c THEN series[k] ELSE df[k][x]]]

\* df.rename(columns = {old: new}).
Rename(df, old, new) ==
    [k \in DOMAIN df |->
        [x \in (DOMAIN df[k] \ {old}) \cup {new} |->
            IF x = new THEN df[k][old] ELSE df[k][x]]]

\* df.drop(columns = [c]).
Drop(df, c) ==
    [k \in DOMAIN df |-> [x \in DOMAIN df[k] \ {c} |-> df[k][x]]]

RECURSIVE IntSumRange(_, _, _)
IntSumRange(f, lo, hi) ==
    IF lo > hi THEN 0
    ELSE IF lo = hi THEN f[lo]
    ELSE IntSumRange(f, lo, (lo + hi) \div 2)
         + IntSumRange(f, ((lo + hi) \div 2) + 1, hi)

IntSum(f) == IntSumRange(f, 1, Len(f))

\* The rows of df whose column key holds v, in their order.
GroupRows(df, key, v) == SelectSeq(df, LAMBDA r : r[key] = v)

\* The sum of the float values of column c over a table.
ColumnSum(df, c) == RatSum([k \in DOMAIN df |-> Num(df[k], c)])

\* The levels of a zone-code column in ascending order, as groupby and the
\* formula's categorical coding list them (ZoneCodes is ascending).
Levels(df, key) ==
    SelectSeq(ZoneCodes, LAMBDA z : \E k \in DOMAIN df : df[k][key] = z)

\* pd.DataFrame(df.groupby([key])[c].agg(np.sum)) for an integer column c:
\* one row per level of key, holding the key and the sum of c.
GroupBySumInt(df, key, c) ==
    LET lv == Levels(df, key)
    IN  [n \in DOMAIN lv |->
            LET g == GroupRows(df, key, lv[n])
            IN  [x \in {key, c} |->
                    IF x = key THEN lv[n]
                    ELSE IntSum([k \in DOMAIN g |-> g[k][c]])]]

\* The same for a float column c.
GroupBySumRat(df, key, c) ==
    LET lv == Levels(df, key)
    IN  [n \in DOMAIN lv |->
            LET g == GroupRows(df, key, lv[n])
            IN  [x \in {key, c} |->
                    IF x = key THEN lv[n] ELSE ColumnSum(g, c)]]

\* A missing value.
NaN == <<0, 0>>

\* The concatenation of blocks[lo..hi].
RECURSIVE FlattenRange(_, _, _)
FlattenRange(blocks, lo, hi) ==
    IF lo > hi THEN <<>>
    ELSE IF lo = hi THEN blocks[lo]
    ELSE FlattenRange(blocks, lo, (lo + hi) \div 2)
         \o FlattenRange(blocks, ((lo + hi) \div 2) + 1, hi)

\* left.merge(right, how = "left"): every left row in its order, once per
\* right row whose column rkey equals the left row's column lkey, with the
\* right row's columns add; a left row without a match is kept with missing
\* values.
MergeLeft(left, right, lkey, rkey, add) ==
    LET Block(l) ==
            LET m == SelectSeq(right, LAMBDA q : q[rkey] = l[lkey])
            IN  IF Len(m) = 0
                THEN <<[x \in DOMAIN l \cup add |->
                          IF x \in add THEN NaN ELSE l[x]]>>
                ELSE [n \in DOMAIN m |->
                        [x \in DOMAIN l \cup add |->
                            IF x \in add THEN m[n][x] ELSE l[x]]]
        blocks == [k \in DOMAIN left |-> Block(left[k])]
    IN  FlattenRange(blocks, 1, Len(blocks))

\* df.pivot_table(values, index = "Orig", columns = "Dest", aggfunc = np.sum,
\* margins = True): the sum of values per origin and destination, the 'All'
\* column (one sum per origin), the 'All' row (one sum per destination) and
\* the grand total.
PivotTable(df, values) ==
    LET idx == {df[k]["Orig"] : k \in DOMAIN df}
        cols == {df[k]["Dest"] : k \in DOMAIN df}
        pairs == {<<df[k]["Orig"], df[k]["Dest"]>> : k \in DOMAIN df}
    IN  [cells |-> [p \in pairs |->
                      ColumnSum(SelectSeq(df, LAMBDA r :
                          r["Orig"] = p[1] /\ r["Dest"] = p[2]), values)],
         rowAll |-> [o \in idx |-> ColumnSum(GroupRows(df, "Orig", o), values)],
         colAll |-> [d \in cols |-> ColumnSum(GroupRows(df, "Dest", d), values)],
         all |-> ColumnSum(df, values)]

NoMatrix == [cells |-> <<>>, rowAll |-> <<>>, colAll |-> <<>>, all |-> <<0, 1>>]

\* ---------------------------------------------------- the Poisson model
\* The name of a fitted parameter, as the pieces of its text: the dummy of
\* level z of a categorical column is "column[z]".
DummyName(factor, z) == <<factor, "[", z, "]">>

\* smf.glm('Total ~ factor + x1 + x2 - 1', family = Poisson()).fit().params:
\* one coefficient per level of factor (in ascending order), then the
\* coefficients c1 of x1 and c2 of x2.  The fit maximises the Poisson
\* likelihood; at the maximum the derivative by the dummy of level z is 0,
\* which says that the fitted means of the rows of z sum to their observed
\* total, so the dummy of z is
\*     log(sum of Total over z / sum of exp(c1*x1 + c2*x2) over z).
\* c1 and c2 are whatever the solver returns: the fit action draws them.
GlmFit(df, factor, x1, x2, c1, c2) ==
    LET lv == Levels(df, factor)
        Weight(r) == Exp(LogAdd(LogScale(c1, r[x1]), LogScale(c2, r[x2])))
        Dummy(z) ==
            LET g == GroupRows(df, factor, z)
            IN  Log(RatMul(ColumnSum(g, "Total"),
                           RatInv(RatSum([k \in DOMAIN g |-> Weight(g[k])]))))
    IN  [n \in DOMAIN lv |->
            [name |-> DummyName(factor, lv[n]), value |-> Dummy(lv[n])]]
        \o <<[name |-> <<x1>>, value |-> c1], [name |-> <<x2>>, value |-> c2]>>

\* results.get_prediction(exog).summary_frame()["mean"]: the fitted mean of
\* each row of exog, exp(dummy of the row's level + c1*x1 + c2*x2).
PredictMean(params, df, factor, x1, x2) ==
    LET Value(nm) == (CHOOSE e \in {params[n] : n \in DOMAIN params} :
                          e.name = nm).value
    IN  [k \in DOMAIN df |->
            Exp(LogAdd(Value(DummyName(factor, df[k][factor])),
                       LogAdd(LogScale(Value(<<x1>>), df[k][x1]),
                              LogScale(Value(<<x2>>), df[k][x2]))))]

\* ------------------------------------------------- the metric functions
RatSub(p, q) == RatAdd(p, <<-q[1], q[2]>>)

\* series.mean()
Mean(series) == RatMul(RatSum(series), <<1, Len(series)>>)

\* The largest j in lo..hi with j*j <= n (lo*lo <= n).
RECURSIVE ISqrtRange(_, _, _)
ISqrtRange(n, lo, hi) ==
    IF lo = hi THEN lo
    ELSE LET mid == (lo + hi + 1) \div 2
         IN  IF mid * mid <= n THEN ISqrtRange(n, mid, hi)
             ELSE ISqrtRange(n, lo, mid - 1)

\* math.sqrt of a rational q >= 0: kept as the root of q.
Sqrt(q) == [sqrt |-> q]

\* round(x, 3) of a root x: the multiple k/1000 nearest to x, the even k when
\* x lies half way.  With y = 4 * 10^6 * x.sqrt and j the largest integer
\* whose square is at most y, x lies between j/2000 and (j + 1)/2000.
Round3(x) ==
    LET a == x.sqrt[1]
        b == x.sqrt[2]
        y == 4000000 * (a \div b) + ((4000000 * (a % b)) \div b)
        exact == (4000000 * (a % b)) % b = 0
        j == ISqrtRange(y, 0, 46340)
        k == IF j % 2 = 0 THEN j \div 2
             ELSE IF exact /\ j * j = y /\ ((j - 1) \div 2) % 2 = 0
                  THEN (j - 1) \div 2
                  ELSE (j + 1) \div 2
    IN  Rat(k, 1000)

\* The root left out: the mean of the squares, rounded.
CalcRMSE_NoRoot(observed, estimated) ==
    LET res == [k \in DOMAIN observed |->
                   RatPow(RatSub(observed[k], estimated[k]), 2)]
    IN  Round3(Sqrt(RatPow(Mean(res), 2)))

\* def CalcRMSE(observed, estimated)
CalcRMSE(observed, estimated) ==
    LET res == [k \in DOMAIN observed |->
                   RatPow(RatSub(observed[k], estimated[k]), 2)]
    IN  Round3(Sqrt(Mean(res)))

\* The values not centred on their means.
Pearsonr_NotCentred(x, y) ==
    LET n == Len(x)
        sxy == RatSum([k \in 1..n |-> RatMul(x[k], y[k])])
        sxx == RatSum([k \in 1..n |-> RatPow(x[k], 2)])
        syy == RatSum([k \in 1..n |-> RatPow(y[k], 2)])
    IN  IF sxx[1] = 0 \/ syy[1] = 0 THEN [sign |-> 0, square |-> NaN]
        ELSE [sign |-> IF sxy[1] > 0 THEN 1 ELSE IF sxy[1] < 0 THEN -1 ELSE 0,
              square |-> RatMul(RatMul(sxy, sxy), RatInv(RatMul(sxx, syy)))]

\* scipy.stats.pearsonr(x, y)[0], the correlation r of two series of the
\* same length of at least 2: the sum of the products of the centred values
\* over the root of the product of the two sums of centred squares.  r is
\* kept as its sign and its square; it is nan when a series is constant.
Pearsonr(x, y) ==
    LET n == Len(x)
        xm == Mean(x)
        ym == Mean(y)
        sxy == RatSum([k \in 1..n |->
                   RatMul(RatSub(x[k], xm), RatSub(y[k], ym))])
        sxx == RatSum([k \in 1..n |-> RatPow(RatSub(x[k], xm), 2)])
        syy == RatSum([k \in 1..n |-> RatPow(RatSub(y[k], ym), 2)])
    IN  IF sxx[1] = 0 \/ syy[1] = 0 THEN [sign |-> 0, square |-> NaN]
        ELSE [sign |-> IF sxy[1] > 0 THEN 1 ELSE IF sxy[1] < 0 THEN -1 ELSE 0,
              square |-> RatMul(RatMul(sxy, sxy), RatInv(RatMul(sxx, syy)))]

\* def CalcRSquared(observed, estimated): r ** 2.
CalcRSquared(observed, estimated) == Pearsonr(observed, estimated).square

\* ------------------------------------------------------------ the state
VARIABLES
    pc,         \* the next code cell to run, "done", or "KeyError"
    cdatasub,   \* the flow table: a sequence of rows, each column -> value
    mat,        \* the pivoted matrices, by the name of their variable
    prodSim,    \* the parameters of the production-constrained fit
    attrSim,    \* the parameters of the attraction-constrained fit
    alpha_i,    \* prodSim.params[0:7]
    gamma,      \* prodSim.params[7]
    beta,       \* -prodSim.params[8]
    Dj2_gamma,  \* the series Dj2_destsal ** gamma
    dist_beta,  \* the series Dist ** beta
    Dj3_gamma,  \* the series Dj3_destsalScenario ** gamma
    loaded,     \* the table as read_csv returned it
    observedArg,  \* the series a metric function is called with, as observed
    estimatedArg, \* the series a metric function is called with, as estimated
    R2,         \* what CalcRSquared returned, <<>> before its call
    RMSE,       \* what CalcRMSE returned, <<>> before its call
    colsRead,   \* every column of cdatasub a cell has read so far
    keyError    \* the columns whose read raised KeyError

vars ==
    <<pc, cdatasub, mat, prodSim, attrSim, alpha_i, gamma, beta,
      Dj2_gamma, dist_beta, Dj3_gamma, loaded, observedArg, estimatedArg,
      R2, RMSE, colsRead, keyError>>

\* The code cells that act on the state, top to bottom.  The cells that only
\* display a variable (alpha_i, gamma, cdatasubmat) and the empty cells of
\* the closing exercise change nothing and are left out.
CellOrder ==
    <<"cdatasubmat", "cdatasubmat2", "prodSim", "O_i", "coefs", "params",
      "prodsimest1", "cdatasubmat3", "fit1", "new_sal", "prodsimest2",
      "A_i", "prodsimest3", "A_i2", "prodsimest4", "cdatasubmat5",
      "attrSim", "attrsimFitted", "fit2", "done">>

NextCell(c) ==
    CellOrder[1 + CHOOSE n \in 1..(Len(CellOrder) - 1) : CellOrder[n] = c]

\* The columns of cdatasub each cell reads before it has assigned them
\* itself.
Reads(c) ==
    CASE c = "cdatasubmat" -> {"TotalNoIntra", "Orig", "Dest"}
      [] c = "cdatasubmat2" -> {"unconstrainedEst2", "Orig", "Dest"}
      [] c = "prodSim" -> {"Total", "OrigCodeNew", "log_Dj2_destsal", "log_Dist"}
      [] c = "O_i" -> {"OrigCodeNew", "DestCodeNew", "Total"}
      [] c = "coefs" -> {"OrigCodeNew"}
      [] c = "params" -> {}
      [] c = "prodsimest1" -> {"alpha_i", "log_Dj2_destsal", "log_Dist"}
      [] c = "cdatasubmat3" -> {"prodsimest1", "Orig", "Dest"}
      [] c = "fit1" -> {"Total", "prodsimest1"}
      [] c = "new_sal" -> {"DestCodeNew", "Dj2_destsal"}
      [] c = "prodsimest2" ->
            {"alpha_i", "Dj3_destsalScenario", "log_Dist", "Orig", "Dest"}
      [] c = "A_i" -> {"Dj2_destsal", "Dist", "OrigCodeNew"}
      [] c = "prodsimest3" -> {"A_i", "O_i"}
      [] c = "A_i2" -> {"Dj3_destsalScenario", "OrigCodeNew"}
      [] c = "prodsimest4" -> {"A_i2", "O_i"}
      [] c = "cdatasubmat5" -> {"prodsimest4", "Orig", "Dest"}
      [] c = "attrSim" -> {"Total", "DestCodeNew", "log_Oi1_origpop", "log_Dist"}
      [] c = "attrsimFitted" ->
            {"DestCodeNew", "log_Oi1_origpop", "log_Dist", "Orig", "Dest"}
      [] c = "fit2" -> {"Total", "attrsimFitted"}

\* Cell c starts: its reads are recorded.
Enter(c) ==
    /\ pc = c
    /\ loaded' = loaded
    /\ UNCHANGED <<observedArg, estimatedArg, R2, RMSE>>
    /\ colsRead' = colsRead \cup Reads(c)

\* Every column cell c reads exists.
Found(c) == Reads(c) \subseteq Columns(cdatasub)

\* Cell c ran to its end.
Leave(c) ==
    /\ pc' = NextCell(c)
    /\ keyError' = keyError

\* Cell c read a column the table does not have: the run stops.
Raise(c) ==
    /\ pc' = "KeyError"
    /\ keyError' = Reads(c) \ Columns(cdatasub)
    /\ UNCHANGED <<cdatasub, mat, prodSim, attrSim, alpha_i, gamma, beta,
                   Dj2_gamma, dist_beta, Dj3_gamma>>

\* cdatasub = pd.read_csv("Data/cdatasub1.csv", index_col = 0).
Init ==
    /\ pc = CellOrder[1]
    /\ \E sal \in ScenarioZoneSalaries, base \in 0..MaxBase, step \in 1..MaxStep :
            cdatasub = ReadCsv(sal, base, step)
    /\ loaded = cdatasub
    /\ observedArg = <<>>
    /\ estimatedArg = <<>>
    /\ R2 = <<>>
    /\ RMSE = <<>>
    /\ mat = [m \in {"cdatasubmat", "cdatasubmat2", "cdatasubmat3",
                     "cdatasubmat4", "cdatasubmat5", "cdatasubmat6"} |->
                NoMatrix]
    /\ prodSim = <<>>
    /\ attrSim = <<>>
    /\ alpha_i = <<>>
    /\ gamma = 0
    /\ beta = 0
    /\ Dj2_gamma = <<>>
    /\ dist_beta = <<>>
    /\ Dj3_gamma = <<>>
    /\ colsRead = {}
    /\ keyError = {}

\* The columns of the file.
LoadedColumns == Columns(ReadCsv(12500, 0, 1))

\* ------------------------------------------------------------ the cells
\* cdatasubmat = pd.pivot_table(cdatasub, values = "TotalNoIntra", ...).
PivotObserved ==
    /\ Enter("cdatasubmat")
    /\ IF Found("cdatasubmat")
       THEN /\ mat' = [mat EXCEPT !["cdatasubmat"] =
                          PivotTable(cdatasub, "TotalNoIntra")]
            /\ Leave("cdatasubmat")
            /\ UNCHANGED <<cdatasub, prodSim, attrSim, alpha_i, gamma, beta,
                           Dj2_gamma, dist_beta, Dj3_gamma>>
       ELSE Raise("cdatasubmat")

\* cdatasubmat2 = cdatasub.pivot_table(values = "unconstrainedEst2", ...).
PivotUnconstrained ==
    /\ Enter("cdatasubmat2")
    /\ IF Found("cdatasubmat2")
       THEN /\ mat' = [mat EXCEPT !["cdatasubmat2"] =
                          PivotTable(cdatasub, "unconstrainedEst2")]
            /\ Leave("cdatasubmat2")
            /\ UNCHANGED <<cdatasub, prodSim, attrSim, alpha_i, gamma, beta,
                           Dj2_gamma, dist_beta, Dj3_gamma>>
       ELSE Raise("cdatasubmat2")

\* prodSim = smf.glm('Total ~ OrigCodeNew + log_Dj2_destsal + log_Dist-1',
\*                   data = cdatasub, family = Poisson()).fit()
FitProdSim ==
    /\ Enter("prodSim")
    /\ IF Found("prodSim")
       THEN /\ \E c1 \in GammaValues, c2 \in (-MaxBeta)..MaxBeta :
                  prodSim' = GlmFit(cdatasub, "OrigCodeNew",
                                    "log_Dj2_destsal", "log_Dist", c1, c2)
            /\ Leave("prodSim")
            /\ UNCHANGED <<cdatasub, mat, attrSim, alpha_i, gamma, beta,
                           Dj2_gamma, dist_beta, Dj3_gamma>>
       ELSE Raise("prodSim")

\* The O_i and D_j cell: the sum of Total per origin code is merged into the
\* table as O_i, then the sum of Total per destination code as D_j.
\* The sum per key left out: one row of the right table per row of df.
MarginFrame_NoGroupBy(df, key, name) == Rename(df, "Total", name)

\* pd.DataFrame(cdatasub.groupby([key])["Total"].agg(np.sum)), renamed.
MarginFrame(df, key, name) == Rename(GroupBySumInt(df, key, "Total"), "Total", name)

WithMargin(df, key, name) ==
    MergeLeft(df, MarginFrame(df, key, name),
              key, key, {name})

\* A copied block whose key was not changed: D_j summed per origin too.
Margins_OneKey(df) ==
    WithMargin(WithMargin(df, "OrigCodeNew", "O_i"), "OrigCodeNew", "D_j")

\* O_i from the sums per OrigCodeNew, then D_j from the sums per DestCodeNew.
Margins(df) ==
    WithMargin(WithMargin(df, "OrigCodeNew", "O_i"), "DestCodeNew", "D_j")

AddMargins ==
    /\ Enter("O_i")
    /\ IF Found("O_i")
       THEN /\ cdatasub' = Margins(cdatasub)
            /\ Leave("O_i")
            /\ UNCHANGED <<mat, prodSim, attrSim, alpha_i, gamma, beta,
                           Dj2_gamma, dist_beta, Dj3_gamma>>
       ELSE Raise("O_i")

\* coefs["coef"].str.replace(x, ""), x a regular expression: "(OrigCodeNew)"
\* matches the text OrigCodeNew, "\[" the text [ and "\]" the text ].
RegexText(x) ==
    CASE x = "(OrigCodeNew)" -> "OrigCodeNew"
      [] x = "\\[" -> "["
      [] x = "\\]" -> "]"

StrReplace(text, x) == SelectSeq(text, LAMBDA piece : piece # RegexText(x))

\* The string a text spells: its pieces one after the other.
RECURSIVE Text(_)
Text(text) == IF text = <<>> THEN "" ELSE Head(text) \o Text(Tail(text))

to_repl == <<"(OrigCodeNew)", "\\[", "\\]">>

\* The coefs cell: the parameters as a table (coef: the name, alpha_i: the
\* value), the names stripped to the zone code, merged on the origin code;
\* the coef column is dropped again.
Coefs(params) ==
    [n \in DOMAIN params |->
        [coef |-> Text(StrReplace(StrReplace(StrReplace(params[n].name,
                      to_repl[1]), to_repl[2]), to_repl[3])),
         alpha_i |-> params[n].value]]

WithCoefs(df, params) ==
    Drop(MergeLeft(df, Coefs(params), "OrigCodeNew", "coef", {"coef", "alpha_i"}),
         "coef")

MergeCoefs ==
    /\ Enter("coefs")
    /\ IF Found("coefs")
       THEN /\ cdatasub' = WithCoefs(cdatasub, prodSim)
            /\ Leave("coefs")
            /\ UNCHANGED <<mat, prodSim, attrSim, alpha_i, gamma, beta,
                           Dj2_gamma, dist_beta, Dj3_gamma>>
       ELSE Raise("coefs")

\* alpha_i = prodSim.params[0:7]; gamma = prodSim.params[7];
\* beta = -prodSim.params[8].  Python counts positions from 0.
AlphaCount == 7
GammaPosition == 7
BetaPosition == 8

SaveParams ==
    /\ Enter("params")
    /\ alpha_i' = [n \in 1..AlphaCount |-> prodSim[n].value]
    /\ gamma' = prodSim[GammaPosition + 1].value
    /\ beta' = -prodSim[BetaPosition + 1].value
    /\ Leave("params")
    /\ UNCHANGED <<cdatasub, mat, prodSim, attrSim, Dj2_gamma, dist_beta,
                   Dj3_gamma>>

\* The column c of a table, as a series.
Column(df, c) == [k \in DOMAIN df |-> df[k][c]]

\* round(series, 0).
\* Truncation where the cells round.
RoundSeries_Truncate(s) == [k \in DOMAIN s |-> FromInt(s[k][1] \div s[k][2])]

RoundSeries(s) == [k \in DOMAIN s |-> RoundHalfEven(s[k])]
\* The distance term left out.
Prodsimest1_NoDistance(df, g, b) ==
    [k \in DOMAIN df |->
        Exp(LogAdd(df[k]["alpha_i"], LogScale(g, df[k]["log_Dj2_destsal"])))]

\* A slip of sign: + beta*log_Dist where the cell subtracts.
Prodsimest1_PlusBeta(df, g, b) ==
    [k \in DOMAIN df |->
        Exp(LogAdd(LogAdd(df[k]["alpha_i"], LogScale(g, df[k]["log_Dj2_destsal"])),
                   LogScale(b, df[k]["log_Dist"])))]

\* np.exp(cdatasub["alpha_i"] + gamma*cdatasub["log_Dj2_destsal"]
\*        - beta*cdatasub["log_Dist"])
Prodsimest1(df, g, b) ==
    [k \in DOMAIN df |->
        Exp(LogAdd(LogAdd(df[k]["alpha_i"], LogScale(g, df[k]["log_Dj2_destsal"])),
                   LogScale(-b, df[k]["log_Dist"])))]

Estimate1 ==
    /\ Enter("prodsimest1")
    /\ IF Found("prodsimest1")
       THEN /\ cdatasub' = Assign(cdatasub, "prodsimest1",
                                  Prodsimest1(cdatasub, gamma, beta))
            /\ Leave("prodsimest1")
            /\ UNCHANGED <<mat, prodSim, attrSim, alpha_i, gamma, beta,
                           Dj2_gamma, dist_beta, Dj3_gamma>>
       ELSE Raise("prodsimest1")

\* The column c rounded in place and pivoted into the matrix m.
RoundedColumn(df, c) == Assign(df, c, RoundSeries(Column(df, c)))

RoundAndPivot3 ==
    /\ Enter("cdatasubmat3")
    /\ IF Found("cdatasubmat3")
       THEN /\ cdatasub' = RoundedColumn(cdatasub, "prodsimest1")
            /\ mat' = [mat EXCEPT !["cdatasubmat3"] =
                          PivotTable(cdatasub', "prodsimest1")]
            /\ Leave("cdatasubmat3")
            /\ UNCHANGED <<prodSim, attrSim, alpha_i, gamma, beta,
                           Dj2_gamma, dist_beta, Dj3_gamma>>
       ELSE Raise("cdatasubmat3")

\* CalcRSquared(cdatasub["Total"], cdatasub["prodsimest1"]) and
\* CalcRMSE(cdatasub["Total"], cdatasub["prodsimest1"]): two values are
\* displayed, nothing is stored.
GoodnessOfFitProd ==
    /\ Enter("fit1")
    /\ IF Found("fit1")
       THEN /\ Leave("fit1")
            /\ UNCHANGED <<cdatasub, mat, prodSim, attrSim, alpha_i, gamma,
                           beta, Dj2_gamma, dist_beta, Dj3_gamma>>
       ELSE Raise("fit1")

\* def new_sal(row)
\* The test made on the origin code.
new_sal_Origin(row) ==
    IF row["OrigCodeNew"] = ScenarioCode THEN ScenarioSalary
    ELSE row["Dj2_destsal"]

\* The two branches exchanged.
new_sal_Swapped(row) ==
    IF row["DestCodeNew"] = ScenarioCode THEN row["Dj2_destsal"]
    ELSE ScenarioSalary

new_sal(row) ==
    IF row["DestCodeNew"] = ScenarioCode THEN ScenarioSalary
    ELSE row["Dj2_destsal"]

\* cdatasub["Dj3_destsalScenario"] = cdatasub.apply(new_sal, axis = 1)
NewSal ==
    /\ Enter("new_sal")
    /\ IF Found("new_sal")
       THEN /\ cdatasub' = Assign(cdatasub, "Dj3_destsalScenario",
                                  [k \in DOMAIN cdatasub |-> new_sal(cdatasub[k])])
            /\ Leave("new_sal")
            /\ UNCHANGED <<mat, prodSim, attrSim, alpha_i, gamma, beta,
                           Dj2_gamma, dist_beta, Dj3_gamma>>
       ELSE Raise("new_sal")

\* np.exp(cdatasub["alpha_i"] + gamma*np.log(cdatasub["Dj3_destsalScenario"])
\*        - beta*cdatasub["log_Dist"])
Prodsimest2(df, g, b) ==
    [k \in DOMAIN df |->
        Exp(LogAdd(LogAdd(df[k]["alpha_i"],
                          LogScale(g, Log(Num(df[k], "Dj3_destsalScenario")))),
                   LogScale(-b, df[k]["log_Dist"])))]

Estimate2 ==
    /\ Enter("prodsimest2")
    /\ IF Found("prodsimest2")
       THEN /\ cdatasub' = Assign(cdatasub, "prodsimest2",
                                  RoundSeries(Prodsimest2(cdatasub, gamma, beta)))
            /\ mat' = [mat EXCEPT !["cdatasubmat4"] =
                          PivotTable(cdatasub', "prodsimest2")]
            /\ Leave("prodsimest2")
            /\ UNCHANGED <<prodSim, attrSim, alpha_i, gamma, beta,
                           Dj2_gamma, dist_beta, Dj3_gamma>>
       ELSE Raise("prodsimest2")

\* cdatasub[c] ** e, and the product of two series.
Power(df, c, e) == [k \in DOMAIN df |-> RatPow(Num(df[k], c), e)]
Times(s, t) == [k \in DOMAIN s |-> RatMul(s[k], t[k])]

\* dist_beta = cdatasub["Dist"]**beta
DistBeta(df, b) == Power(df, "Dist", b)

\* The balancing-factor cells: Ai1 holds the weights w, their sum per origin
\* code is divided into 1, renamed, and merged back on the origin code.
BalancingFrame(df, name) ==
    LET sums == GroupBySumRat(df, "OrigCodeNew", "Ai1")
    IN  Rename([n \in DOMAIN sums |->
                   [sums[n] EXCEPT !["Ai1"] = RatInv(sums[n]["Ai1"])]],
               "Ai1", name)

WithBalancingFactor(df, w, name) ==
    LET df1 == Assign(df, "Ai1", w)
    IN  MergeLeft(df1, BalancingFrame(df1, name),
                  "OrigCodeNew", "OrigCodeNew",
                  {name})

BalancingFactors ==
    /\ Enter("A_i")
    /\ IF Found("A_i")
       THEN /\ Dj2_gamma' = Power(cdatasub, "Dj2_destsal", gamma)
            /\ dist_beta' = DistBeta(cdatasub, beta)
            /\ cdatasub' = WithBalancingFactor(cdatasub,
                               Times(Dj2_gamma', dist_beta'), "A_i")
            /\ Leave("A_i")
            /\ UNCHANGED <<mat, prodSim, attrSim, alpha_i, gamma, beta,
                           Dj3_gamma>>
       ELSE Raise("A_i")

\* cdatasub[a]*cdatasub["O_i"]*wD*wd
Equation1(df, a, wD, wd) ==
    [k \in DOMAIN df |->
        RatMul(RatMul(RatMul(df[k][a], Num(df[k], "O_i")), wD[k]), wd[k])]

Estimate3 ==
    /\ Enter("prodsimest3")
    /\ IF Found("prodsimest3")
       THEN /\ cdatasub' = Assign(cdatasub, "prodsimest3",
                RoundSeries(Equation1(cdatasub, "A_i", Dj2_gamma, dist_beta)))
            /\ Leave("prodsimest3")
            /\ UNCHANGED <<mat, prodSim, attrSim, alpha_i, gamma, beta,
                           Dj2_gamma, dist_beta, Dj3_gamma>>
       ELSE Raise("prodsimest3")

\* The rename of the copied cell left as it was.
ScenarioFactor_Copied == "A_i"

\* A_i.rename(columns = {"Ai1": "A_i2"}, inplace = True)
ScenarioFactor == "A_i2"

BalancingFactors2 ==
    /\ Enter("A_i2")
    /\ IF Found("A_i2")
       THEN /\ Dj3_gamma' = Power(cdatasub, "Dj3_destsalScenario", gamma)
            /\ cdatasub' = WithBalancingFactor(cdatasub,
                               Times(Dj3_gamma', dist_beta), ScenarioFactor)
            /\ Leave("A_i2")
            /\ UNCHANGED <<mat, prodSim, attrSim, alpha_i, gamma, beta,
                           Dj2_gamma, dist_beta>>
       ELSE Raise("A_i2")

\* The baseline weights Dj2_gamma left in the copied line.
Prodsimest4_Baseline(df, wD, wd) == Equation1(df, "A_i2", Dj2_gamma, wd)

\* The baseline factor A_i left in the copied line.
Prodsimest4_OldFactor(df, wD, wd) == Equation1(df, "A_i", wD, wd)

\* cdatasub["A_i2"]*cdatasub["O_i"]*Dj3_gamma*dist_beta
Prodsimest4(df, wD, wd) == Equation1(df, "A_i2", wD, wd)

Estimate4 ==
    /\ Enter("prodsimest4")
    /\ IF Found("prodsimest4")
       THEN /\ cdatasub' = Assign(cdatasub, "prodsimest4",
                RoundSeries(Prodsimest4(cdatasub, Dj3_gamma, dist_beta)))
            /\ Leave("prodsimest4")
            /\ UNCHANGED <<mat, prodSim, attrSim, alpha_i, gamma, beta,
                           Dj2_gamma, dist_beta, Dj3_gamma>>
       ELSE Raise("prodsimest4")

Pivot5 ==
    /\ Enter("cdatasubmat5")
    /\ IF Found("cdatasubmat5")
       THEN /\ mat' = [mat EXCEPT !["cdatasubmat5"] =
                          PivotTable(cdatasub, "prodsimest4")]
            /\ Leave("cdatasubmat5")
            /\ UNCHANGED <<cdatasub, prodSim, attrSim, alpha_i, gamma, beta,
                           Dj2_gamma, dist_beta, Dj3_gamma>>
       ELSE Raise("cdatasubmat5")

\* The categorical column of the attraction-constrained formula.
AttrFactor == "DestCodeNew"

\* attrSim = smf.glm('Total ~ DestCodeNew + log_Oi1_origpop + log_Dist-1',
\*                   data = cdatasub, family = Poisson()).fit()
FitAttrSim ==
    /\ Enter("attrSim")
    /\ IF Found("attrSim")
       THEN /\ \E c1 \in GammaValues, c2 \in (-MaxBeta)..MaxBeta :
                  attrSim' = GlmFit(cdatasub, AttrFactor,
                                    "log_Oi1_origpop", "log_Dist", c1, c2)
            /\ Leave("attrSim")
            /\ UNCHANGED <<cdatasub, mat, prodSim, alpha_i, gamma, beta,
                           Dj2_gamma, dist_beta, Dj3_gamma>>
       ELSE Raise("attrSim")

\* attrSim.get_prediction(cdatasub[["DestCodeNew", "log_Oi1_origpop",
\* "log_Dist"]]), its mean rounded into attrsimFitted and pivoted.
PredictAttr ==
    /\ Enter("attrsimFitted")
    /\ IF Found("attrsimFitted")
       THEN /\ cdatasub' = Assign(cdatasub, "attrsimFitted",
                RoundSeries(PredictMean(attrSim, cdatasub, "DestCodeNew",
                                        "log_Oi1_origpop", "log_Dist")))
            /\ mat' = [mat EXCEPT !["cdatasubmat6"] =
                          PivotTable(cdatasub', "attrsimFitted")]
            /\ Leave("attrsimFitted")
            /\ UNCHANGED <<prodSim, attrSim, alpha_i, gamma, beta,
                           Dj2_gamma, dist_beta, Dj3_gamma>>
       ELSE Raise("attrsimFitted")

\* CalcRSquared and CalcRMSE of Total against attrsimFitted, displayed.
GoodnessOfFitAttr ==
    /\ Enter("fit2")
    /\ IF Found("fit2")
       THEN /\ Leave("fit2")
            /\ UNCHANGED <<cdatasub, mat, prodSim, attrSim, alpha_i, gamma,
                           beta, Dj2_gamma, dist_beta, Dj3_gamma>>
       ELSE Raise("fit2")

Next ==
    \/ PivotObserved
    \/ PivotUnconstrained
    \/ FitProdSim
    \/ AddMargins
    \/ MergeCoefs
    \/ SaveParams
    \/ Estimate1
    \/ RoundAndPivot3
    \/ GoodnessOfFitProd
    \/ NewSal
    \/ Estimate2
    \/ BalancingFactors
    \/ Estimate3
    \/ BalancingFactors2
    \/ Estimate4
    \/ Pivot5
    \/ FitAttrSim
    \/ PredictAttr
    \/ GoodnessOfFitAttr

Spec == Init /\ [][Next]_vars

\* ------------------------------------- the metric functions on their own
\* The two functions are pure: they are run here on every pair of series of
\* one length in SeriesLengths with values in 0..MaxValue, outside the run
\* of the cells, one call from each pair.
SeriesOf(n) == [1..n -> {FromInt(v) : v \in 0..MaxValue}]

MetricInit ==
    /\ pc = "done"
    /\ cdatasub = <<>>
    /\ loaded = <<>>
    /\ mat = <<>>
    /\ prodSim = <<>>
    /\ attrSim = <<>>
    /\ alpha_i = <<>>
    /\ gamma = 0
    /\ beta = 0
    /\ Dj2_gamma = <<>>
    /\ dist_beta = <<>>
    /\ Dj3_gamma = <<>>
    /\ colsRead = {}
    /\ keyError = {}
    /\ \E n \in SeriesLengths :
          /\ observedArg \in SeriesOf(n)
          /\ estimatedArg \in SeriesOf(n)
    /\ R2 = <<>>
    /\ RMSE = <<>>

\* The variables of the run of the cells.
cellVars ==
    <<pc, cdatasub, loaded, mat, prodSim, attrSim, alpha_i, gamma, beta,
      Dj2_gamma, dist_beta, Dj3_gamma, colsRead, keyError>>

\* CalcRSquared(observed, estimated)
CallCalcRSquared ==
    /\ R2 = <<>> /\ RMSE = <<>>
    /\ R2' = CalcRSquared(observedArg, estimatedArg)
    /\ UNCHANGED <<observedArg, estimatedArg, RMSE, cellVars>>

\* CalcRMSE(observed, estimated)
CallCalcRMSE ==
    /\ R2 = <<>> /\ RMSE = <<>>
    /\ RMSE' = CalcRMSE(observedArg, estimatedArg)
    /\ UNCHANGED <<observedArg, estimatedArg, R2, cellVars>>

MetricNext == CallCalcRSquared \/ CallCalcRMSE

MetricSpec == MetricInit /\ [][MetricNext]_vars

\* ------------------------------------------------------------ the claims
Position(c) == CHOOSE n \in DOMAIN CellOrder : CellOrder[n] = c

\* Cell c has run to its end.
Ran(c) == pc # "KeyError" /\ Position(pc) > Position(c)

OriginCodes == {cdatasub[k]["OrigCodeNew"] : k \in DOMAIN cdatasub}
DestinationCodes == {cdatasub[k]["DestCodeNew"] : k \in DOMAIN cdatasub}

\* The sum of the integer column c over a table.
IntColumnSum(df, c) == IntSum([k \in DOMAIN df |-> df[k][c]])

\* The sum of the float column c over the rows whose key column holds z
\* differs from the sum of Total over the same rows by at most half a unit
\* per row.
WithinRounding(key, z, c) ==
    LET g == GroupRows(cdatasub, key, z)
        s == ColumnSum(g, c)
    IN  /\ s[2] = 1
        /\ 2 * Abs(s[1] - IntColumnSum(g, "Total")) <= Len(g)

\* C1: production constraint.  Before prodsimest1 is rounded, its sum over
\* the rows of each origin is exactly the sum of Total over those rows; once
\* it is rounded, the two sums differ by at most half a unit per row.
C1_ProductionConstraint ==
    /\ pc = "cdatasubmat3" =>
          \A z \in OriginCodes :
              LET g == GroupRows(cdatasub, "OrigCodeNew", z)
              IN  ColumnSum(g, "prodsimest1") = FromInt(IntColumnSum(g, "Total"))
    /\ Ran("cdatasubmat3") =>
          \A z \in OriginCodes : WithinRounding("OrigCodeNew", z, "prodsimest1")

\* The estimates are rounded, both exponents are not 0, and the rounding has
\* moved the sum of some origin off its total.
C1_Witness ==
    /\ Ran("cdatasubmat3")
    /\ gamma # 0 /\ beta # 0
    /\ \E z \in OriginCodes :
          LET g == GroupRows(cdatasub, "OrigCodeNew", z)
          IN  ColumnSum(g, "prodsimest1") # FromInt(IntColumnSum(g, "Total"))

\* C2: round trip.  On every row prodsimest3, rounded, equals prodsimest1,
\* rounded.
C2_RoundTrip ==
    Ran("prodsimest3") =>
        \A k \in DOMAIN cdatasub :
            cdatasub[k]["prodsimest3"] = cdatasub[k]["prodsimest1"]

\* C3: balancing factor.  On every row A_i is 1 over the sum, over the rows
\* of the same origin code, of Dj2_destsal**gamma * Dist**(-beta), with the
\* gamma and beta of the estimate exp(alpha_i + gamma*ln D_j - beta*ln d_ij).
C3_BalancingFactor ==
    Ran("A_i") =>
        \A k \in DOMAIN cdatasub :
            LET g == GroupRows(cdatasub, "OrigCodeNew", cdatasub[k]["OrigCodeNew"])
            IN  cdatasub[k]["A_i"] =
                    RatInv(RatSum([n \in DOMAIN g |->
                        RatMul(RatPow(Num(g[n], "Dj2_destsal"), gamma),
                               RatPow(Num(g[n], "Dist"), -beta))]))

\* C4: attraction constraint.  Once attrsimFitted is written, for every
\* destination the sum of attrsimFitted over the rows of that destination
\* differs from the sum of Total over the same rows by at most half a unit
\* per row.
C4_AttractionConstraint ==
    Ran("attrsimFitted") =>
        \A z \in DestinationCodes : WithinRounding("DestCodeNew", z, "attrsimFitted")

\* attrsimFitted is written by a fit whose two slopes are not 0, and the
\* rounding has moved the sum of some destination off its total.
C4_Witness ==
    /\ Ran("attrsimFitted")
    /\ attrSim[Len(attrSim) - 1].value # 0 /\ attrSim[Len(attrSim)].value # 0
    /\ \E z \in DestinationCodes :
          LET g == GroupRows(cdatasub, "DestCodeNew", z)
          IN  ColumnSum(g, "attrsimFitted") # FromInt(IntColumnSum(g, "Total"))

\* The scenario has raised the salary of the scenario zone.
SalaryRaised ==
    \A k \in DOMAIN cdatasub :
        cdatasub[k]["DestCodeNew"] = ScenarioCode =>
            cdatasub[k]["Dj3_destsalScenario"] > cdatasub[k]["Dj2_destsal"]

\* C5: the origin constraints in the scenario.  Once prodsimest4 is written,
\* for every origin the sum of prodsimest4 over the rows of that origin
\* differs from O_i by at most half a unit per row, whatever gamma, beta and
\* the salary the scenario replaces.
C5_ScenarioConstraint ==
    Ran("prodsimest4") =>
        \A z \in OriginCodes :
            LET g == GroupRows(cdatasub, "OrigCodeNew", z)
                s == ColumnSum(g, "prodsimest4")
            IN  /\ s[2] = 1
                /\ \A k \in DOMAIN g : 2 * Abs(s[1] - g[k]["O_i"]) <= Len(g)

\* prodsimest4 is written with both exponents not 0, and on some row the
\* scenario has changed the estimate.
C5_Witness ==
    /\ Ran("prodsimest4")
    /\ gamma # 0 /\ beta # 0
    /\ \E k \in DOMAIN cdatasub :
          cdatasub[k]["prodsimest4"] # cdatasub[k]["prodsimest3"]

\* The row margins of cdatasubmat3 and of cdatasubmat differ by at most
\* half of n.
MarginsWithin(n) ==
    Ran("cdatasubmat3") =>
        \A o \in DOMAIN mat["cdatasubmat3"].rowAll :
            LET est == mat["cdatasubmat3"].rowAll[o]
                obs == mat["cdatasubmat"].rowAll[o]
            IN  /\ est[2] = 1 /\ obs[2] = 1
                /\ 2 * Abs(est[1] - obs[1]) <= n

C7_NaiveScenario ==
    Ran("prodsimest2") =>
        /\ \A k \in DOMAIN cdatasub :
              IF cdatasub[k]["DestCodeNew"] # ScenarioCode
              THEN cdatasub[k]["prodsimest2"] = cdatasub[k]["prodsimest1"]
              ELSE gamma > 0 /\ ScenarioSalary > cdatasub[k]["Dj2_destsal"] =>
                      cdatasub[k]["prodsimest2"][1] >= cdatasub[k]["prodsimest1"][1]
        /\ gamma > 0 /\ SalaryRaised =>
              \A z \in OriginCodes :
                  LET g == GroupRows(cdatasub, "OrigCodeNew", z)
                  IN  ColumnSum(g, "prodsimest2")[1] >= ColumnSum(g, "prodsimest1")[1]

\* gamma > 0, the salary was raised, and some origin sends more than O_i
\* plus its rounding: its flow into the scenario zone has grown.
C7_Witness ==
    /\ Ran("prodsimest2")
    /\ gamma > 0 /\ SalaryRaised
    /\ \E k \in DOMAIN cdatasub :
          /\ cdatasub[k]["DestCodeNew"] = ScenarioCode
          /\ cdatasub[k]["prodsimest2"][1] > cdatasub[k]["prodsimest1"][1]
          /\ LET g == GroupRows(cdatasub, "OrigCodeNew", cdatasub[k]["OrigCodeNew"])
             IN  ColumnSum(g, "prodsimest2")[1] > ColumnSum(g, "prodsimest1")[1]

\* C8: redistribution.  When the salary of the scenario zone was raised and
\* gamma > 0, prodsimest4 is at least prodsimest3 on every row into the
\* scenario zone and at most prodsimest3 on every other row.
C8_Redistribution ==
    Ran("prodsimest4") /\ gamma > 0 /\ SalaryRaised =>
        \A k \in DOMAIN cdatasub :
            IF cdatasub[k]["DestCodeNew"] = ScenarioCode
            THEN cdatasub[k]["prodsimest4"][1] >= cdatasub[k]["prodsimest3"][1]
            ELSE cdatasub[k]["prodsimest4"][1] <= cdatasub[k]["prodsimest3"][1]

\* gamma > 0, the salary was raised, and some origin sends more into the
\* scenario zone and less into another zone than at the baseline.
C8_Witness ==
    /\ Ran("prodsimest4") /\ gamma > 0 /\ SalaryRaised
    /\ \E k, n \in DOMAIN cdatasub :
          /\ cdatasub[k]["OrigCodeNew"] = cdatasub[n]["OrigCodeNew"]
          /\ cdatasub[k]["DestCodeNew"] = ScenarioCode
          /\ cdatasub[k]["prodsimest4"][1] > cdatasub[k]["prodsimest3"][1]
          /\ cdatasub[n]["prodsimest4"][1] < cdatasub[n]["prodsimest3"][1]

\* C9: O_i and D_j are the margins of the observed matrix.  Once the O_i/D_j
\* cell has run, on every row O_i is the 'All' margin of cdatasubmat for the
\* row's origin and D_j the 'All' margin of cdatasubmat for the row's
\* destination.
C9_MarginColumns ==
    Ran("O_i") =>
        \A k \in DOMAIN cdatasub :
            /\ FromInt(cdatasub[k]["O_i"]) =
                   mat["cdatasubmat"].rowAll[cdatasub[k]["Orig"]]
            /\ FromInt(cdatasub[k]["D_j"]) =
                   mat["cdatasubmat"].colAll[cdatasub[k]["Dest"]]

\* The margins are written, and on some row the two differ and neither is 0.
C9_Witness ==
    /\ Ran("O_i")
    /\ \E k \in DOMAIN cdatasub :
          /\ cdatasub[k]["O_i"] > 0 /\ cdatasub[k]["D_j"] > 0
          /\ cdatasub[k]["O_i"] # cdatasub[k]["D_j"]

\* The six input columns of the data model: the origin and the destination
\* identifier (as name and as code), the observed flow count, and the three
\* logarithms.
SpecInputColumns ==
    {"Orig", "Dest", "OrigCodeNew", "DestCodeNew", "Total",
     "log_Dj2_destsal", "log_Oi1_origpop", "log_Dist"}

\* The columns the cells have appended to the table.
DerivedColumns == Columns(cdatasub) \ LoadedColumns

\* C10, as stated: every column a cell has read is one of the six input
\* columns of the data model or a derived column appended by a cell.
C10_SpecColumnsOnly == colsRead \subseteq SpecInputColumns \cup DerivedColumns

\* C10, amended: every column a cell reads is a column of the loaded file or
\* a derived column appended by an earlier cell, so that no cell stops on a
\* column that is missing.
C10_LinearDataflow ==
    /\ pc # "KeyError" /\ keyError = {}
    /\ colsRead \subseteq LoadedColumns \cup DerivedColumns

\* The last cell has run; the cells have read raw columns of the file that
\* are not among the six, and derived columns.
C10_Witness ==
    /\ pc = "done"
    /\ {"TotalNoIntra", "unconstrainedEst2", "Dj2_destsal", "Dist"} \subseteq colsRead
    /\ {"alpha_i", "A_i", "A_i2", "prodsimest4"} \subseteq colsRead \cap DerivedColumns

\* C13: the scenario salary column.  Once the new_sal cell has run,
\* Dj3_destsalScenario is 25000 on every row whose DestCodeNew is E09000002
\* and the row's Dj2_destsal on every other row, and Dj2_destsal is on every
\* row what the file held.
C13_ScenarioSalaryColumn ==
    Ran("new_sal") =>
        /\ "Dj3_destsalScenario" \in Columns(cdatasub)
        /\ Len(cdatasub) = Len(loaded)
        /\ \A k \in DOMAIN cdatasub :
              /\ cdatasub[k]["Dj3_destsalScenario"] =
                    IF cdatasub[k]["DestCodeNew"] = "E09000002" THEN 25000
                    ELSE cdatasub[k]["Dj2_destsal"]
              /\ cdatasub[k]["Dj2_destsal"] = loaded[k]["Dj2_destsal"]

\* The cell has run; the two salary columns differ on a row into E09000002
\* and agree, on a salary that is not 25000, on another row.
C13_Witness ==
    /\ Ran("new_sal")
    /\ \E k, n \in DOMAIN cdatasub :
          /\ cdatasub[k]["DestCodeNew"] = "E09000002"
          /\ cdatasub[k]["Dj3_destsalScenario"] # cdatasub[k]["Dj2_destsal"]
          /\ cdatasub[n]["DestCodeNew"] # "E09000002"
          /\ cdatasub[n]["Dj3_destsalScenario"] = cdatasub[n]["Dj2_destsal"]
          /\ cdatasub[n]["Dj2_destsal"] # 25000

\* The columns that identify a row.
PairColumns == {"Orig", "Dest", "OrigCodeNew", "DestCodeNew"}

\* C14: the row set.  In every state the table has as many rows as the file,
\* no two of them for the same pair of origin and destination, and row k is
\* the row k of the file: its names and codes are those the file held.
C14_RowSet ==
    /\ Len(cdatasub) = Len(loaded)
    /\ \A k \in DOMAIN cdatasub : \A c \in PairColumns :
          cdatasub[k][c] = loaded[k][c]
    /\ \A k, n \in DOMAIN cdatasub :
          k # n => <<cdatasub[k]["OrigCodeNew"], cdatasub[k]["DestCodeNew"]>>
                     # <<cdatasub[n]["OrigCodeNew"], cdatasub[n]["DestCodeNew"]>>

\* The five merges have run: their columns are in the table.
C14_Witness ==
    /\ Ran("A_i2")
    /\ {"O_i", "D_j", "alpha_i", "A_i", "A_i2"} \subseteq Columns(cdatasub)
    /\ Len(cdatasub) = NZones * (NZones - 1)

\* The input columns of the file.
InputColumns ==
    {"Total", "OrigCodeNew", "DestCodeNew", "Dj2_destsal", "Dist",
     "log_Dj2_destsal", "log_Dist", "log_Oi1_origpop"}

\* Column c holds in the next state, on some row, another value than now.
Reassigned(c) ==
    \/ Len(cdatasub') # Len(cdatasub)
    \/ \E k \in DOMAIN cdatasub : cdatasub'[k][c] # cdatasub[k][c]

\* C15: no input or baseline column is overwritten.  In every state the
\* input columns hold what the file held; no step removes a column, and the
\* only steps that change the values of a column the table already has are
\* the rounding of prodsimest1 by the cdatasubmat3 cell and the new Ai1 of
\* the A_i and A_i2 cells' scratch column.  In particular the A_i2 and
\* prodsimest4 cells leave O_i, alpha_i, A_i, prodsimest1 and prodsimest3 as
\* they are.
C15_NoOverwrite ==
    /\ [](/\ Len(cdatasub) = Len(loaded)
          /\ \A k \in DOMAIN cdatasub : \A c \in InputColumns :
                cdatasub[k][c] = loaded[k][c])
    /\ [][/\ Columns(cdatasub) \subseteq Columns(cdatasub')
          /\ \A c \in Columns(cdatasub) :
                Reassigned(c) =>
                    \/ c = "prodsimest1" /\ pc = "cdatasubmat3"
                    \/ c = "Ai1" /\ pc = "A_i2"]_vars

\* The run is over; the A_i2 cell has given Ai1 new values, and the table
\* holds the baseline columns next to those of the scenario.
C15_Witness ==
    /\ pc = "done"
    /\ {"O_i", "alpha_i", "A_i", "prodsimest1", "prodsimest3", "A_i2",
        "prodsimest4", "Ai1"} \subseteq Columns(cdatasub)
    /\ \E k \in DOMAIN cdatasub :
          cdatasub[k]["Ai1"] # RatMul(Dj2_gamma[k], dist_beta[k])

\* The mean of the squared differences of the two series of the call.
MeanSquare ==
    Mean([k \in DOMAIN observedArg |->
             RatMul(RatSub(observedArg[k], estimatedArg[k]),
                    RatSub(observedArg[k], estimatedArg[k]))])

\* C11: CalcRMSE.  What CalcRMSE returns is a number of thousandths k/1000,
\* the one nearest to the square root of the mean of the squared differences
\* ((k - 1/2)^2 <= 10^6 * mean <= (k + 1/2)^2); it is not negative, it is
\* what CalcRMSE returns for the two series exchanged, and it is 0 when the
\* two series are equal element by element.
C11_CalcRMSE ==
    RMSE # <<>> =>
        /\ RMSE[2] > 0 /\ 1000 % RMSE[2] = 0
        /\ LET k == RMSE[1] * (1000 \div RMSE[2])
               m == MeanSquare
           IN  /\ k >= 0
               /\ k > 0 => (2 * k - 1) * (2 * k - 1) * m[2] <= 4000000 * m[1]
               /\ 4000000 * m[1] <= (2 * k + 1) * (2 * k + 1) * m[2]
        /\ RMSE = CalcRMSE(estimatedArg, observedArg)
        /\ observedArg = estimatedArg => RMSE = <<0, 1>>

\* CalcRMSE has returned a value that is not a whole number, for two series
\* that differ.
C11_Witness ==
    /\ RMSE # <<>>
    /\ RMSE[2] # 1
    /\ observedArg # estimatedArg

\* A series all of whose values are equal.
Constant(series) == \A k \in DOMAIN series : series[k] = series[1]

\* The series a * series + b.
Affine(a, b, series) ==
    [k \in DOMAIN series |-> RatAdd(RatMul(FromInt(a), series[k]), FromInt(b))]

\* What CalcRSquared returned lies in [0, 1], is what it returns for the two
\* series exchanged and for the estimates rescaled by a positive constant
\* and shifted, and is 1 when the estimates are a positive affine function
\* of the observations.
RSquaredLaws ==
    /\ R2[2] > 0 /\ 0 <= R2[1] /\ R2[1] <= R2[2]
    /\ R2 = CalcRSquared(estimatedArg, observedArg)
    /\ \A a \in 1..MaxScale, b \in Shifts :
          /\ CalcRSquared(observedArg, Affine(a, b, estimatedArg)) = R2
          /\ estimatedArg = Affine(a, b, observedArg) => R2 = <<1, 1>>

\* C12, as stated: the laws hold for every two series.
C12_EverySeries == R2 # <<>> => RSquaredLaws

\* C12, amended: the laws hold for every two series neither of which is
\* constant; when one of them is constant the correlation is not defined and
\* CalcRSquared returns nan.
C12_CalcRSquared ==
    R2 # <<>> =>
        IF Constant(observedArg) \/ Constant(estimatedArg) THEN R2 = NaN
        ELSE RSquaredLaws

\* CalcRSquared has returned 1 for estimates that differ from the
\* observations.
C12_Witness ==
    /\ R2 = <<1, 1>>
    /\ estimatedArg # observedArg
    /\ \E a \in 1..MaxScale, b \in Shifts :
          estimatedArg = Affine(a, b, observedArg)

=============================================================================
